---- MODULE Spec2Model ----
(***************************************************************************)
(* npxpy node hierarchy: Node.add_child, Node.deepcopy_node and the        *)
(* parent/child/ancestor/descendant bookkeeping of src/npxpy/nodes/node.py *)
(* as a state machine over a heap of node objects.                         *)
(*                                                                         *)
(* Objects are numbered 1..n in order of allocation.  Python lists that    *)
(* are only ever rebound or that are never aliased are modelled by value   *)
(* (children_nodes, all_descendants, all_ancestors); parents_nodes is a    *)
(* reference into `lists`, because copy.copy shares that list object       *)
(* between a node and its shallow copy.                                    *)
(***************************************************************************)
EXTENDS Integers, Sequences, FiniteSets, TLC

\* ---------------------------------------------------------------- bounds
NumNodes == 5      \* nodes constructed before the first call
MaxEdges == 3      \* parent/child links in the heap
MaxCands == 2      \* positional arguments of one add_child call
MaxCopies == 1     \* deepcopy_node calls
MaxAppendEdges == 4    \* parent/child links after an append_node call
MaxPairs == 2      \* (type, index) pairs of one grab_node call
NumPresets == 1    \* Preset objects made
NumResources == 1  \* Resource objects made
MaxRegistered == 2 \* entries of one _presets or _resources list
ChunkSize == 2     \* bytes of one read of a file (4096 in the code)
MaxNew == 2        \* Node constructor calls

\* Types of the constructed nodes, in construction order (repeating).
ConstructedTypes == <<"project", "scene", "group", "scene", "structure", "group">>

ConstructedType(i) == ConstructedTypes[((i - 1) % Len(ConstructedTypes)) + 1]

\* A value that is no node: it has none of _type, all_descendants, all_ancestors.
NonNode == 0

VARIABLES
    node_type,        \* object -> Node._type
    id,               \* object -> Node.id (uuid4 values are numbered as drawn)
    name,             \* object -> Node.name (a string is the sequence of its characters)
    position,         \* object -> Node.position (a value is kept as its type)
    rotation,         \* object -> Node.rotation
    children,         \* object -> Node.children (ids, as to_dict last wrote them)
    children_nodes,   \* object -> Node.children_nodes
    parents_nodes,    \* object -> reference of the list object Node.parents_nodes
    lists,            \* list reference -> contents of that list object
    all_descendants,  \* object -> Node.all_descendants
    all_ancestors,    \* object -> Node.all_ancestors
    presets,          \* project -> reference of the list object Project._presets
    resources,        \* project -> reference of the list object Project._resources
    registries,       \* list reference -> ids of the presets or resources in it
    uuids,            \* number of uuid4 values drawn so far
    project_info,     \* project -> Project.project_info
    files,            \* file path -> the file stored there, if any
    handles,          \* objects the caller holds a variable for
    copies,           \* deepcopy_node calls made
    ret               \* how the last call ended

vars == <<node_type, id, name, position, rotation, children, children_nodes, parents_nodes, lists, all_descendants,
          all_ancestors, presets, resources, registries, uuids, project_info, files,
          handles, copies, ret>>

\* The heap as one value, for the operators that compute a call's effect.
Heap ==
    [node_type |-> node_type, id |-> id, name |-> name, position |-> position,
     rotation |-> rotation, children |-> children,
     children_nodes |-> children_nodes,
     parents_nodes |-> parents_nodes, lists |-> lists,
     all_descendants |-> all_descendants, all_ancestors |-> all_ancestors,
     presets |-> presets, resources |-> resources, registries |-> registries,
     uuids |-> uuids, project_info |-> project_info]

SetHeap(h) ==
    /\ node_type' = h.node_type
    /\ id' = h.id
    /\ name' = h.name
    /\ position' = h.position
    /\ rotation' = h.rotation
    /\ children' = h.children
    /\ children_nodes' = h.children_nodes
    /\ parents_nodes' = h.parents_nodes
    /\ lists' = h.lists
    /\ all_descendants' = h.all_descendants
    /\ all_ancestors' = h.all_ancestors
    /\ presets' = h.presets
    /\ resources' = h.resources
    /\ registries' = h.registries
    /\ uuids' = h.uuids
    /\ project_info' = h.project_info

Objects(h) == DOMAIN h.node_type

\* node.parents_nodes, read through its list object.
Parents(h, n) == h.lists[h.parents_nodes[n]]

\* ------------------------------------------------------------ small helpers
Range(s) == {s[i] : i \in DOMAIN s}

RECURSIVE SumLen(_, _)
SumLen(f, S) ==
    IF S = {} THEN 0
    ELSE LET x == CHOOSE y \in S : TRUE IN Len(f[x]) + SumLen(f, S \ {x})

\* Parent/child links in the heap.
Edges(h) == SumLen(h.children_nodes, Objects(h))

\* The number of Project objects among the first n constructed nodes.
ProjectsUpTo(n) == Cardinality({m \in 1..n : ConstructedType(m) = "project"})

\* The name the constructed nodes are given, and the default of position and
\* rotation, [0.0, 0.0, 0.0].
ConstructedName == <<"n">>

DefaultVector == <<"float", "float", "float">>

\* Project.project_info as Project.__init__ fills it: the login name and the
\* clock are read once, at construction.
ConstructedProjectInfo ==
    [author |-> "login", objective |-> "25x", resist |-> "IP-n162",
     substrate |-> "FuSi", creation_date |-> "construction"]

\* Nodes of the other types have no project_info.
NoProjectInfo == [author |-> "", objective |-> "", resist |-> "",
                  substrate |-> "", creation_date |-> ""]

\* ------------------------------------------------------------ file system
\* File paths are sequences of components, the last one the file name.
FilePathList == << <<"a", "part.stl">>, <<"b", "part.stl">>, <<"a", "copy.stl">> >>

FilePaths == {FilePathList[i] : i \in DOMAIN FilePathList}

\* Byte contents a file may have.
FileContents == {<<1, 2, 3>>, <<2>>}

NoFile == [exists |-> FALSE, bytes |-> <<>>]

File(bytes) == [exists |-> TRUE, bytes |-> bytes]

\* The files on disk when the first Resource is constructed: two files of equal
\* content under different names, one of another content.
ConstructedFiles ==
    [p \in FilePaths |-> IF p = <<"b", "part.stl">> THEN File(<<2>>)
                         ELSE File(<<1, 2, 3>>)]

\* Node.__init__ for the nodes constructed up front; Project.__init__ gives
\* each project two empty lists of its own, nodes of the other types have
\* neither attribute (reference 0).
Init ==
    /\ node_type = [n \in 1..NumNodes |-> ConstructedType(n)]
    /\ id = [n \in 1..NumNodes |-> n]
    /\ name = [n \in 1..NumNodes |-> ConstructedName]
    /\ position = [n \in 1..NumNodes |-> DefaultVector]
    /\ rotation = [n \in 1..NumNodes |-> DefaultVector]
    /\ children = [n \in 1..NumNodes |-> <<>>]
    /\ children_nodes = [n \in 1..NumNodes |-> <<>>]
    /\ parents_nodes = [n \in 1..NumNodes |-> n]
    /\ lists = [n \in 1..NumNodes |-> <<>>]
    /\ all_descendants = [n \in 1..NumNodes |-> <<>>]
    /\ all_ancestors = [n \in 1..NumNodes |-> <<>>]
    /\ presets = [n \in 1..NumNodes |->
                      IF ConstructedType(n) = "project"
                      THEN 2 * ProjectsUpTo(n) - 1 ELSE 0]
    /\ resources = [n \in 1..NumNodes |->
                        IF ConstructedType(n) = "project"
                        THEN 2 * ProjectsUpTo(n) ELSE 0]
    /\ registries = [k \in 1..(2 * ProjectsUpTo(NumNodes)) |-> <<>>]
    /\ uuids = NumNodes
    /\ project_info = [n \in 1..NumNodes |->
                           IF ConstructedType(n) = "project"
                           THEN ConstructedProjectInfo ELSE NoProjectInfo]
    /\ files = ConstructedFiles
    /\ handles = 1..NumNodes
    /\ copies = 0
    /\ ret = [op |-> "init", outcome |-> "returned", error |-> "", warning |-> FALSE]

\* ------------------------------------------------- Node._generate_all_ancestors
\* The worklist loop of _generate_all_ancestors, one iteration per step: pop
\* the last node, append its parents to both lists.  `depths` is no program
\* state: next to each entry of nodes_to_check it keeps the number of
\* parents_nodes links followed from self to reach that entry.  An entry
\* reached over as many links as there are objects lies on a walk that passes
\* some node twice; from there on the loop pushes that node again and again and
\* nodes_to_check never becomes empty: the call does not terminate (done is
\* FALSE).  Without such an entry the walks are finite in number and the loop
\* ends with the list the code returns.
RECURSIVE AncestorsLoop(_, _, _, _)
AncestorsLoop(h, ancestors, nodes_to_check, depths) ==
    IF nodes_to_check = <<>> THEN [done |-> TRUE, value |-> ancestors]
    ELSE LET last == Len(nodes_to_check)
             current_node == nodes_to_check[last]
             depth == depths[last]
             found == Parents(h, current_node)
         IN IF depth >= Cardinality(Objects(h))
            THEN [done |-> FALSE, value |-> ancestors]
            ELSE AncestorsLoop(h, ancestors \o found,
                               SubSeq(nodes_to_check, 1, last - 1) \o found,
                               SubSeq(depths, 1, last - 1)
                                   \o [i \in DOMAIN found |-> depth + 1])

GenerateAllAncestors(h, self) == AncestorsLoop(h, <<>>, <<self>>, <<0>>)

\* ---------------------------------------------------- Node._has_ancestor_of_type
\* getattr(current_node, "parent", None): no class of the package sets an
\* attribute named parent, so the default is what comes back.  <<>> is None.
ParentAttr(h, current_node) == <<>>

RECURSIVE HasAncestorOfTypeLoop(_, _, _)
HasAncestorOfTypeLoop(h, current, wanted_type) ==
    IF current = <<>> THEN FALSE
    ELSE IF h.node_type[current[1]] = wanted_type THEN TRUE
    ELSE HasAncestorOfTypeLoop(h, ParentAttr(h, current[1]), wanted_type)

HasAncestorOfType(h, self, wanted_type) ==
    HasAncestorOfTypeLoop(h, <<self>>, wanted_type)

\* ------------------------------------------------------------- Node.add_child
IsNode(h, x) == x \in Objects(h)

\* Rejection with the terminal-node branch left out.
RejectionWithoutTerminalCheck(h, self, child_node) ==
    IF ~IsNode(h, child_node) THEN "TypeError: only nodes can be children"
    ELSE IF h.node_type[child_node] = "project" THEN "ValueError: project as child"
    ELSE IF h.node_type[child_node] = "scene"
         THEN (IF HasAncestorOfType(h, self, "scene")
               THEN "ValueError: nested scenes" ELSE "")
    ELSE IF self \in Range(h.all_descendants[child_node])
         THEN "ValueError: ancestor of the current node"
    ELSE ""

\* Rejection with the project branch left out.
RejectionWithoutProjectCheck(h, self, child_node) ==
    IF ~IsNode(h, child_node) THEN "TypeError: only nodes can be children"
    ELSE IF h.node_type[self] = "structure" THEN "ValueError: terminal node"
    ELSE IF h.node_type[child_node] = "scene"
         THEN (IF HasAncestorOfType(h, self, "scene")
               THEN "ValueError: nested scenes" ELSE "")
    ELSE IF self \in Range(h.all_descendants[child_node])
         THEN "ValueError: ancestor of the current node"
    ELSE ""

\* The if/elif chain at the top of the loop body: the exception it raises,
\* "" when the candidate passes.  The branches are exclusive: a candidate of
\* type scene takes the scene branch and is never tested by the branch after it.
Rejection(h, self, child_node) ==
    IF ~IsNode(h, child_node) THEN "TypeError: only nodes can be children"
    ELSE IF h.node_type[self] = "structure" THEN "ValueError: terminal node"
    ELSE IF h.node_type[child_node] = "project" THEN "ValueError: project as child"
    ELSE IF h.node_type[child_node] = "scene"
         THEN (IF HasAncestorOfType(h, self, "scene")
               THEN "ValueError: nested scenes" ELSE "")
    ELSE IF self \in Range(h.all_descendants[child_node])
         THEN "ValueError: ancestor of the current node"
    ELSE ""

\* LinkChild that adds the candidate alone to self.all_descendants, without
\* the candidate's own descendants.
LinkChildWithoutSubtree(h, self, child_node) ==
    LET h1 == [h EXCEPT !.lists[h.parents_nodes[child_node]] = Append(@, self)]
        h2 == [h1 EXCEPT !.children_nodes[self] = Append(@, child_node)]
    IN [h2 EXCEPT !.all_descendants[self] = Append(@, child_node)]

\* The update of self.all_descendants if the new entries were put in front.
LinkChildPrepending(h, self, child_node) ==
    LET h1 == [h EXCEPT !.lists[h.parents_nodes[child_node]] = Append(@, self)]
        h2 == [h1 EXCEPT !.children_nodes[self] = Append(@, child_node)]
    IN [h2 EXCEPT !.all_descendants[self] =
                      (<<child_node>> \o h2.all_descendants[child_node]) \o @]

\* child_node.parents_nodes.append(self); self.children_nodes.append(child_node);
\* self.all_descendants += [child_node] + child_node.all_descendants
LinkChild(h, self, child_node) ==
    LET h1 == [h EXCEPT !.lists[h.parents_nodes[child_node]] = Append(@, self)]
        h2 == [h1 EXCEPT !.children_nodes[self] = Append(@, child_node)]
    IN [h2 EXCEPT !.all_descendants[self] =
                      @ \o (<<child_node>> \o h2.all_descendants[child_node])]

\* for child in [child_node] + child_node.all_descendants:
\*     child.all_ancestors = child._generate_all_ancestors()
RECURSIVE RefreshAncestors(_, _, _)
RefreshAncestors(h, todo, i) ==
    IF i > Len(todo) THEN [diverged |-> FALSE, heap |-> h]
    ELSE LET r == GenerateAllAncestors(h, todo[i])
         IN IF ~r.done THEN [diverged |-> TRUE, heap |-> h]
            ELSE RefreshAncestors([h EXCEPT !.all_ancestors[todo[i]] = r.value],
                                  todo, i + 1)

\* for ancestor in self.all_ancestors:
\*     ancestor.all_descendants += [child_node] + child_node.all_descendants
RECURSIVE ExtendAncestors(_, _, _, _)
ExtendAncestors(h, ancestors, child_node, i) ==
    IF i > Len(ancestors) THEN h
    ELSE ExtendAncestors(
             [h EXCEPT !.all_descendants[ancestors[i]] =
                           @ \o (<<child_node>> \o h.all_descendants[child_node])],
             ancestors, child_node, i + 1)

\* print("WARNING: Structures have to be inside Scene nodes!")
StructureWarning(h, self, child_node) ==
    /\ h.node_type[child_node] = "structure"
    /\ \A i \in DOMAIN h.all_ancestors[self] :
           h.node_type[h.all_ancestors[self][i]] # "scene"
    /\ h.node_type[self] # "scene"

\* AddOne with the candidate linked before the checks are made, so that a
\* rejected candidate stays in the lists.
AddOneChecksLate(h, self, child_node) ==
    LET error == Rejection(h, self, child_node)
        linked == IF IsNode(h, child_node) THEN LinkChild(h, self, child_node) ELSE h
        refreshed == RefreshAncestors(
                         linked,
                         <<child_node>> \o linked.all_descendants[child_node], 1)
        extended == ExtendAncestors(refreshed.heap,
                                    refreshed.heap.all_ancestors[self],
                                    child_node, 1)
    IN IF error # ""
       THEN [heap |-> linked, outcome |-> "raised", error |-> error, warning |-> FALSE]
       ELSE IF refreshed.diverged
       THEN [heap |-> refreshed.heap, outcome |-> "diverged", error |-> "",
             warning |-> FALSE]
       ELSE [heap |-> extended, outcome |-> "returned", error |-> "",
             warning |-> StructureWarning(extended, self, child_node)]

\* One pass through the loop body for one candidate.
AddOne(h, self, child_node) ==
    LET error == Rejection(h, self, child_node) IN
    IF error # ""
    THEN [heap |-> h, outcome |-> "raised", error |-> error, warning |-> FALSE]
    ELSE LET linked == LinkChild(h, self, child_node)
             refreshed == RefreshAncestors(
                              linked,
                              <<child_node>> \o linked.all_descendants[child_node], 1)
             extended == ExtendAncestors(refreshed.heap,
                                         refreshed.heap.all_ancestors[self],
                                         child_node, 1)
         IN IF refreshed.diverged
            THEN [heap |-> refreshed.heap, outcome |-> "diverged", error |-> "",
                  warning |-> FALSE]
            ELSE [heap |-> extended, outcome |-> "returned", error |-> "",
                  warning |-> StructureWarning(extended, self, child_node)]

\* for child_node in child_nodes: <body>; return self
\* The return statement is the last statement of the loop body, so the call
\* ends after the first candidate; with no candidate the loop body never runs
\* and the method returns None.
AddChildResult(h, self, child_nodes) ==
    IF child_nodes = <<>>
    THEN [heap |-> h, outcome |-> "returned_none", error |-> "", warning |-> FALSE]
    ELSE AddOne(h, self, child_nodes[1])

\* Argument lists of one call: nodes the caller holds, or a non-node value.
CandidateLists ==
    UNION {[1..k -> handles \cup {NonNode}] : k \in 0..MaxCands}

\* A call that loops forever never gives control back: nothing follows it.
Running == ret.outcome # "diverged"

AddChild(self, child_nodes) ==
    /\ Running
    /\ LET r == AddChildResult(Heap, self, child_nodes) IN
       /\ r.outcome \in {"raised", "returned_none"} \/ Edges(Heap) < MaxEdges
       /\ SetHeap(r.heap)
       /\ ret' = [op |-> "add_child", outcome |-> r.outcome, error |-> r.error,
                  warning |-> r.warning]
    /\ UNCHANGED <<handles, copies, files>>

\* Calls with exactly one candidate.
SingleCandidates == {<<c>> : c \in handles \cup {NonNode}}

\* add_child with no candidate or one, on the constructed nodes.
NextAdd ==
    \E self \in handles, child_nodes \in SingleCandidates \cup {<<>>} :
        AddChild(self, child_nodes)

SpecAdd == Init /\ [][NextAdd]_vars

\* add_child with up to MaxCands candidates, on the constructed nodes.
NextMulti ==
    \E self \in handles, child_nodes \in CandidateLists : AddChild(self, child_nodes)

SpecMulti == Init /\ [][NextMulti]_vars

\* --------------------------------------------------------- Node.deepcopy_node
\* Everything one attribute away from a node.
Refs(h, n) ==
    Range(h.children_nodes[n]) \cup Range(Parents(h, n))
        \cup Range(h.all_descendants[n]) \cup Range(h.all_ancestors[n])

\* copy.deepcopy copies every object reachable from its argument.
RECURSIVE Closure(_, _)
Closure(h, S) ==
    LET T == S \cup UNION {Refs(h, n) : n \in S}
    IN IF T = S THEN S ELSE Closure(h, T)

Rank(S, x) == Cardinality({y \in S : y <= x})

Nth(S, k) == CHOOSE x \in S : Rank(S, x) = k

\* copy.deepcopy(self): one new object per reachable object, one new list
\* object per parents_nodes, _presets or _resources list they use (the memo
\* keeps shared lists shared), every reference redirected to the copies; the
\* copy of a preset or resource keeps its id.  The new objects are appended
\* to the heap in the order of their originals.
DeepCopy(h, self) ==
    LET reached == Closure(h, {self})
        used == {h.parents_nodes[n] : n \in reached}
        n0 == Cardinality(Objects(h))
        l0 == Len(h.lists)
        registered == ({h.presets[n] : n \in reached}
                           \cup {h.resources[n] : n \in reached}) \ {0}
        RegistryCopyOf(r) ==
            IF r = 0 THEN 0 ELSE Len(h.registries) + Rank(registered, r)
        all == 1..(n0 + Cardinality(reached))
        Orig(m) == Nth(reached, m - n0)
        CopyOf(n) == n0 + Rank(reached, n)
        ListCopyOf(l) == l0 + Rank(used, l)
        Moved(s) == [i \in DOMAIN s |-> CopyOf(s[i])]
        Field(f, m) == IF m <= n0 THEN f[m] ELSE Moved(f[Orig(m)])
    IN [node_type |-> [m \in all |-> IF m <= n0 THEN h.node_type[m]
                                     ELSE h.node_type[Orig(m)]],
        id |-> [m \in all |-> IF m <= n0 THEN h.id[m] ELSE h.id[Orig(m)]],
        name |-> [m \in all |-> IF m <= n0 THEN h.name[m] ELSE h.name[Orig(m)]],
        position |-> [m \in all |-> IF m <= n0 THEN h.position[m]
                                    ELSE h.position[Orig(m)]],
        rotation |-> [m \in all |-> IF m <= n0 THEN h.rotation[m]
                                    ELSE h.rotation[Orig(m)]],
        children |-> [m \in all |-> IF m <= n0 THEN h.children[m]
                                    ELSE h.children[Orig(m)]],
        children_nodes |-> [m \in all |-> Field(h.children_nodes, m)],
        parents_nodes |-> [m \in all |-> IF m <= n0 THEN h.parents_nodes[m]
                                         ELSE ListCopyOf(h.parents_nodes[Orig(m)])],
        lists |-> h.lists \o [k \in 1..Cardinality(used) |->
                                  Moved(h.lists[Nth(used, k)])],
        all_descendants |-> [m \in all |-> Field(h.all_descendants, m)],
        all_ancestors |-> [m \in all |-> Field(h.all_ancestors, m)],
        presets |-> [m \in all |-> IF m <= n0 THEN h.presets[m]
                                   ELSE RegistryCopyOf(h.presets[Orig(m)])],
        resources |-> [m \in all |-> IF m <= n0 THEN h.resources[m]
                                     ELSE RegistryCopyOf(h.resources[Orig(m)])],
        registries |-> h.registries \o [k \in 1..Cardinality(registered) |->
                                            h.registries[Nth(registered, k)]],
        uuids |-> h.uuids,
        project_info |-> [m \in all |-> IF m <= n0 THEN h.project_info[m]
                                        ELSE h.project_info[Orig(m)]]]

\* The object deepcopy returns for self.
DeepCopyOf(h, self) == Cardinality(Objects(h)) + Rank(Closure(h, {self}), self)

\* _reset_ids without the loop over node.children_nodes.
ResetIdsOfNodeOnly(h, node) ==
    [h EXCEPT !.uuids = @ + 1, !.id[node] = h.uuids + 1]

\* Node._reset_ids: a new uuid4 for the node, then for each child in turn.
RECURSIVE ResetIds(_, _)
RECURSIVE ResetIdsOfChildren(_, _, _)
ResetIds(h, node) ==
    ResetIdsOfChildren([h EXCEPT !.uuids = @ + 1, !.id[node] = h.uuids + 1],
                       h.children_nodes[node], 1)

ResetIdsOfChildren(h, kids, i) ==
    IF i > Len(kids) THEN h
    ELSE ResetIdsOfChildren(ResetIds(h, kids[i]), kids, i + 1)

\* list.index: the first position of x in s, 0 when list.index raises ValueError.
IndexOf(s, x) ==
    IF x \in Range(s)
    THEN CHOOSE i \in DOMAIN s : s[i] = x /\ \A j \in 1..(i - 1) : s[j] # x
    ELSE 0

\* for descendant_node in copied_node.all_descendants: cut its all_ancestors
\* after the first occurrence of copied_node.
RECURSIVE TrimAncestors(_, _, _, _)
TrimAncestors(h, copied_node, descendants, i) ==
    IF i > Len(descendants) THEN [raised |-> FALSE, heap |-> h]
    ELSE LET index_of_copied_node ==
                 IndexOf(h.all_ancestors[descendants[i]], copied_node)
         IN IF index_of_copied_node = 0 THEN [raised |-> TRUE, heap |-> h]
            ELSE TrimAncestors(
                     [h EXCEPT !.all_ancestors[descendants[i]] =
                                   SubSeq(@, 1, index_of_copied_node)],
                     copied_node, descendants, i + 1)

\* The copy_children branch.
DeepBranch(h, self) ==
    LET copied_node == DeepCopyOf(h, self)
        reset == ResetIds(DeepCopy(h, self), copied_node)
        cleared == [reset EXCEPT !.all_ancestors[copied_node] = <<>>]
        trimmed == TrimAncestors(cleared, copied_node,
                                 cleared.all_descendants[copied_node], 1)
    IN [heap |-> trimmed.heap, copied_node |-> copied_node,
        outcome |-> IF trimmed.raised THEN "raised" ELSE "returned",
        error |-> IF trimmed.raised THEN "ValueError" ELSE ""]

\* The else branch without the rebinding of children_nodes and all_descendants.
ShallowBranchKeepingChildren(h, self) ==
    LET copied_node == Cardinality(Objects(h)) + 1
        all == 1..copied_node
        Put(f, v) == [m \in all |-> IF m = copied_node THEN v ELSE f[m]]
    IN [heap |-> [node_type |-> Put(h.node_type, h.node_type[self]),
                  id |-> Put(h.id, h.uuids + 1),
                  name |-> Put(h.name, h.name[self]),
                  position |-> Put(h.position, h.position[self]),
                  rotation |-> Put(h.rotation, h.rotation[self]),
                  children |-> Put(h.children, h.children[self]),
                  children_nodes |-> Put(h.children_nodes, h.children_nodes[self]),
                  parents_nodes |-> Put(h.parents_nodes, h.parents_nodes[self]),
                  lists |-> h.lists,
                  all_descendants |-> Put(h.all_descendants, h.all_descendants[self]),
                  all_ancestors |-> Put(h.all_ancestors, <<>>),
                  presets |-> Put(h.presets, h.presets[self]),
                  resources |-> Put(h.resources, h.resources[self]),
                  registries |-> h.registries,
                  uuids |-> h.uuids + 1,
                  project_info |-> Put(h.project_info, h.project_info[self])],
        copied_node |-> copied_node, outcome |-> "returned", error |-> ""]

\* The else branch: copy.copy(self) makes one new object whose attributes are
\* the attribute values of self (the same list objects); id, children_nodes,
\* all_descendants and all_ancestors are then rebound, parents_nodes is not.
ShallowBranch(h, self) ==
    LET copied_node == Cardinality(Objects(h)) + 1
        all == 1..copied_node
        Put(f, v) == [m \in all |-> IF m = copied_node THEN v ELSE f[m]]
    IN [heap |-> [node_type |-> Put(h.node_type, h.node_type[self]),
                  id |-> Put(h.id, h.uuids + 1),
                  name |-> Put(h.name, h.name[self]),
                  position |-> Put(h.position, h.position[self]),
                  rotation |-> Put(h.rotation, h.rotation[self]),
                  children |-> Put(h.children, h.children[self]),
                  children_nodes |-> Put(h.children_nodes, <<>>),
                  parents_nodes |-> Put(h.parents_nodes, h.parents_nodes[self]),
                  lists |-> h.lists,
                  all_descendants |-> Put(h.all_descendants, <<>>),
                  all_ancestors |-> Put(h.all_ancestors, <<>>),
                  presets |-> Put(h.presets, h.presets[self]),
                  resources |-> Put(h.resources, h.resources[self]),
                  registries |-> h.registries,
                  uuids |-> h.uuids + 1,
                  project_info |-> Put(h.project_info, h.project_info[self])],
        copied_node |-> copied_node, outcome |-> "returned", error |-> ""]

DeepcopyResult(h, self, copy_children) ==
    IF copy_children THEN DeepBranch(h, self) ELSE ShallowBranch(h, self)

DeepcopyNode(self, copy_children) ==
    /\ Running
    /\ copies < MaxCopies
    /\ LET r == DeepcopyResult(Heap, self, copy_children) IN
       /\ SetHeap(r.heap)
       /\ handles' = IF r.outcome = "returned" THEN handles \cup {r.copied_node}
                     ELSE handles
       /\ ret' = [op |-> "deepcopy_node", outcome |-> r.outcome, error |-> r.error,
                  warning |-> FALSE]
    /\ copies' = copies + 1
    /\ UNCHANGED files

\* add_child with one candidate and deepcopy_node, in any order.
Next ==
    \/ \E self \in handles, child_nodes \in SingleCandidates : AddChild(self, child_nodes)
    \/ \E self \in handles, copy_children \in BOOLEAN : DeepcopyNode(self, copy_children)

Spec == Init /\ [][Next]_vars

\* ------------------------------------------------------------- append_node
\* Node._depth: the number of first children followed from node down to a node
\* without children.
RECURSIVE Depth(_, _)
Depth(h, node) ==
    IF h.children_nodes[node] = <<>> THEN 0
    ELSE 1 + Depth(h, h.children_nodes[node][1])

\* max(grandest_children, key=...): the first element whose key is the largest.
MaxByDepth(h, grandest_children) ==
    LET first == CHOOSE i \in DOMAIN grandest_children :
                     /\ \A j \in DOMAIN grandest_children :
                            Depth(h, grandest_children[j])
                                <= Depth(h, grandest_children[i])
                     /\ \A j \in 1..(i - 1) :
                            Depth(h, grandest_children[j])
                                < Depth(h, grandest_children[i])
    IN grandest_children[first]

\* Node._find_grandest_grandchild.
RECURSIVE FindGrandestGrandchild(_, _)
FindGrandestGrandchild(h, current_node) ==
    IF h.children_nodes[current_node] = <<>> THEN current_node
    ELSE MaxByDepth(h, [i \in DOMAIN h.children_nodes[current_node] |->
                           FindGrandestGrandchild(
                               h, h.children_nodes[current_node][i])])

\* Node.append_node: add_child on the node _find_grandest_grandchild returns;
\* append_node itself returns None.
AppendNodeResult(h, self, node_to_append) ==
    LET grandest_grandchild == FindGrandestGrandchild(h, self)
        r == AddChildResult(h, grandest_grandchild, <<node_to_append>>)
    IN [r EXCEPT !.outcome = IF @ = "returned" THEN "returned_none" ELSE @]

AppendNode(self, node_to_append) ==
    /\ Running
    /\ LET r == AppendNodeResult(Heap, self, node_to_append) IN
       /\ r.outcome = "raised" \/ Edges(Heap) < MaxAppendEdges
       /\ SetHeap(r.heap)
       /\ ret' = [op |-> "append_node", outcome |-> r.outcome, error |-> r.error,
                  warning |-> r.warning]
    /\ UNCHANGED <<handles, copies, files>>

\* add_child with one candidate and append_node, in any order.
NextAppend ==
    \/ \E self \in handles, child_nodes \in SingleCandidates : AddChild(self, child_nodes)
    \/ \E self \in handles, node_to_append \in handles \cup {NonNode} :
           AppendNode(self, node_to_append)

SpecAppend == Init /\ [][NextAppend]_vars

\* --------------------------------------------------------------- grab_node
\* [child for child in node.children_nodes if child._type == node_type]
FilteredNodes(h, node, type) ==
    SelectSeq(h.children_nodes[node], LAMBDA child : h.node_type[child] = type)

\* Python's s[index]: positions count from 0, a negative index counts from the
\* end, anything else is an IndexError (NonNode here).
ListItem(s, index) ==
    IF index >= 0 /\ index < Len(s) THEN s[index + 1]
    ELSE IF index < 0 /\ -index <= Len(s) THEN s[Len(s) + index + 1]
    ELSE NonNode

\* The inner loop of grab_node without the type filter.
RECURSIVE NextLevelNodesUnfiltered(_, _, _, _, _, _)
NextLevelNodesUnfiltered(h, current_level_nodes, i, next_level_nodes, type, index) ==
    IF i > Len(current_level_nodes)
    THEN [raised |-> FALSE, value |-> next_level_nodes]
    ELSE LET filtered_nodes == h.children_nodes[current_level_nodes[i]]
         IN IF Len(filtered_nodes) > index
            THEN IF ListItem(filtered_nodes, index) = NonNode
                 THEN [raised |-> TRUE, value |-> next_level_nodes]
                 ELSE NextLevelNodesUnfiltered(
                          h, current_level_nodes, i + 1,
                          Append(next_level_nodes, ListItem(filtered_nodes, index)),
                          type, index)
            ELSE NextLevelNodesUnfiltered(h, current_level_nodes, i + 1,
                                          next_level_nodes, type, index)

\* The inner loop of grab_node: for each node of the current level, the child
\* at `index` among its children of the given type, when the filtered list is
\* longer than index; filtered_nodes[index] raises IndexError for a negative
\* index beyond the list.
RECURSIVE NextLevelNodes(_, _, _, _, _, _)
NextLevelNodes(h, current_level_nodes, i, next_level_nodes, type, index) ==
    IF i > Len(current_level_nodes)
    THEN [raised |-> FALSE, value |-> next_level_nodes]
    ELSE LET filtered_nodes == FilteredNodes(h, current_level_nodes[i], type)
         IN IF Len(filtered_nodes) > index
            THEN IF ListItem(filtered_nodes, index) = NonNode
                 THEN [raised |-> TRUE, value |-> next_level_nodes]
                 ELSE NextLevelNodes(
                          h, current_level_nodes, i + 1,
                          Append(next_level_nodes, ListItem(filtered_nodes, index)),
                          type, index)
            ELSE NextLevelNodes(h, current_level_nodes, i + 1,
                                next_level_nodes, type, index)

\* The outer loop of grab_node over the (type, index) pairs, then
\* current_level_nodes[0], an IndexError on an empty list.
RECURSIVE GrabNodeLoop(_, _, _, _)
GrabNodeLoop(h, current_level_nodes, node_types_with_indices, k) ==
    IF k > Len(node_types_with_indices)
    THEN IF current_level_nodes = <<>>
         THEN [outcome |-> "raised", error |-> "IndexError", value |-> NonNode]
         ELSE [outcome |-> "returned", error |-> "",
               value |-> current_level_nodes[1]]
    ELSE LET level == NextLevelNodes(h, current_level_nodes, 1, <<>>,
                                     node_types_with_indices[k][1],
                                     node_types_with_indices[k][2])
         IN IF level.raised
            THEN [outcome |-> "raised", error |-> "IndexError", value |-> NonNode]
            ELSE GrabNodeLoop(h, level.value, node_types_with_indices, k + 1)

GrabNodeResult(h, self, node_types_with_indices) ==
    GrabNodeLoop(h, <<self>>, node_types_with_indices, 1)

\* The (type, index) pairs and the argument lists the calls are made with.
GrabTypes == {"scene", "group"}

GrabIndices == {-1, 0, 1}

PairLists == UNION {[1..k -> GrabTypes \X GrabIndices] : k \in 0..MaxPairs}

\* grab_node reads the tree and leaves it as it is; ret keeps the call and
\* the node it returned.
GrabNode(self, node_types_with_indices) ==
    /\ Running
    /\ LET r == GrabNodeResult(Heap, self, node_types_with_indices) IN
       ret' = [op |-> "grab_node", outcome |-> r.outcome, error |-> r.error,
               warning |-> FALSE, self |-> self,
               args |-> node_types_with_indices, value |-> r.value]
    /\ SetHeap(Heap)
    /\ UNCHANGED <<handles, copies, files>>

\* A tree built with add_child and looked into with grab_node: one grab_node
\* call between two add_child calls.
NextGrab ==
    \/ \E self \in handles, child_nodes \in SingleCandidates : AddChild(self, child_nodes)
    \/ /\ ret.op # "grab_node"
       /\ \E self \in handles, node_types_with_indices \in PairLists :
              GrabNode(self, node_types_with_indices)

SpecGrab == Init /\ [][NextGrab]_vars

\* ------------------------------------------------------ grab_all_nodes_bfs
\* The queue loop with pop() in place of pop(0): the last entry is taken.
RECURSIVE BfsLoopPoppingLast(_, _, _, _)
BfsLoopPoppingLast(h, result, nodes_to_check, type) ==
    IF nodes_to_check = <<>> THEN result
    ELSE LET current_node == nodes_to_check[Len(nodes_to_check)]
         IN BfsLoopPoppingLast(
                h,
                IF h.node_type[current_node] = type
                THEN Append(result, current_node) ELSE result,
                SubSeq(nodes_to_check, 1, Len(nodes_to_check) - 1)
                    \o h.children_nodes[current_node],
                type)

\* The queue loop of grab_all_nodes_bfs: take the first entry, keep it when
\* its type matches, put its children at the end of the queue.
RECURSIVE BfsLoop(_, _, _, _)
BfsLoop(h, result, nodes_to_check, type) ==
    IF nodes_to_check = <<>> THEN result
    ELSE LET current_node == Head(nodes_to_check)
         IN BfsLoop(h,
                    IF h.node_type[current_node] = type
                    THEN Append(result, current_node) ELSE result,
                    Tail(nodes_to_check) \o h.children_nodes[current_node],
                    type)

\* The type tags the calls ask for: those of the constructed nodes and one
\* that no node has.
BfsTypes == Range(ConstructedTypes) \cup {"array"}

\* grab_all_nodes_bfs reads the tree and leaves it as it is; ret keeps the
\* call and the list it returned.
GrabAllNodesBfs(self, type) ==
    /\ Running
    /\ ret' = [op |-> "grab_all_nodes_bfs", outcome |-> "returned", error |-> "",
               warning |-> FALSE, self |-> self, args |-> <<type>>,
               value |-> BfsLoop(Heap, <<>>, <<self>>, type)]
    /\ SetHeap(Heap)
    /\ UNCHANGED <<handles, copies, files>>

\* A tree built with add_child and searched with grab_all_nodes_bfs.
NextBfs ==
    \/ \E self \in handles, child_nodes \in SingleCandidates : AddChild(self, child_nodes)
    \/ \E self \in handles, type \in BfsTypes : GrabAllNodesBfs(self, type)

SpecBfs == Init /\ [][NextBfs]_vars

\* ----------------------------------------------------------------- to_dict
\* The keys of the dict Node.to_dict builds ("geometry" is commented out).
NodeDictKeys ==
    {"type", "id", "name", "position", "rotation", "children", "properties"}

\* The keys the to_dict of the node's class returns: Project.to_dict updates
\* the dict with three keys, Structure.to_dict sets two, Scene.to_dict and
\* Group.to_dict return the dict of Node.to_dict.
KeysOfType(type) ==
    IF type = "project" THEN NodeDictKeys \cup {"objective", "resin", "substrate"}
    ELSE IF type = "structure" THEN NodeDictKeys \cup {"preset", "geometry"}
    ELSE NodeDictKeys

\* [i.id for i in self.children_nodes]
ChildIds(h, self) ==
    [i \in DOMAIN h.children_nodes[self] |-> h.id[h.children_nodes[self][i]]]

\* to_dict that builds the dict before it refreshes self.children.
ToDictResultStale(h, self) ==
    [heap |-> [h EXCEPT !.children[self] = ChildIds(h, self)],
     node_dict |-> [keys |-> KeysOfType(h.node_type[self]),
                    type |-> h.node_type[self],
                    id |-> h.id[self],
                    children |-> h.children[self]]]

\* to_dict of the node's class: self.children is rebound to the ids of the
\* live children, then the dict is built from the attributes; of the values
\* the model keeps type, id and children.
ToDictResult(h, self) ==
    LET refreshed == [h EXCEPT !.children[self] = ChildIds(h, self)]
    IN [heap |-> refreshed,
        node_dict |-> [keys |-> KeysOfType(refreshed.node_type[self]),
                       type |-> refreshed.node_type[self],
                       id |-> refreshed.id[self],
                       children |-> refreshed.children[self]]]

ToDict(self) ==
    /\ Running
    /\ LET r == ToDictResult(Heap, self) IN
       /\ SetHeap(r.heap)
       /\ ret' = [op |-> "to_dict", outcome |-> "returned", error |-> "",
                  warning |-> FALSE, self |-> self, value |-> r.node_dict]
    /\ UNCHANGED <<handles, copies, files>>

\* A tree built with add_child, its nodes converted with to_dict at any time.
NextDict ==
    \/ \E self \in handles, child_nodes \in SingleCandidates : AddChild(self, child_nodes)
    \/ \E self \in handles : ToDict(self)

SpecDict == Init /\ [][NextDict]_vars

\* ------------------------------------------------------------------ export
\* The Preset and Resource objects the caller has made, and a value that is
\* neither.
Presets == 1..NumPresets

Resources == 1..NumResources

NonItem == 0

\* ---------------------------------------------------------------- Resource
\* hashlib.md5 is kept as a 16-bit digest: update() folds the bytes of a chunk
\* into the running state.
DigestModulus == 65536

DigestSeed == 5381

RECURSIVE Md5Update(_, _, _)
Md5Update(state, chunk, i) ==
    IF i > Len(chunk) THEN state
    ELSE Md5Update((state * 33 + chunk[i] + 1) % DigestModulus, chunk, i + 1)

\* The loop `for chunk in iter(lambda: file.read(...), b"")`: one update per
\* chunk until the read returns nothing.
RECURSIVE Md5OfChunks(_, _, _)
Md5OfChunks(bytes, offset, state) ==
    IF offset > Len(bytes) THEN state
    ELSE LET last == IF offset + ChunkSize - 1 > Len(bytes) THEN Len(bytes)
                     ELSE offset + ChunkSize - 1
         IN Md5OfChunks(bytes, last + 1,
                        Md5Update(state, SubSeq(bytes, offset, last), 1))

\* os.path.basename
Basename(file_path) == file_path[Len(file_path)]

NoPath == [root |-> "", hash |-> 0, name |-> ""]

\* generate_path if the digest were taken of the path instead of the content.
GeneratePathResultHashingPath(fs, file_path) ==
    IF ~fs[file_path].exists
    THEN [outcome |-> "raised", error |-> "FileNotFoundError", value |-> NoPath]
    ELSE [outcome |-> "returned", error |-> "",
          value |-> [root |-> "resources",
                     hash |-> Md5OfChunks(
                                  <<CHOOSE i \in DOMAIN FilePathList :
                                        FilePathList[i] = file_path>>,
                                  1, DigestSeed),
                     name |-> Basename(file_path)]]

\* Resource.generate_path: FileNotFoundError unless the file is there, else
\* resources/<hexdigest of the content>/<basename>.
GeneratePathResult(fs, file_path) ==
    IF ~fs[file_path].exists
    THEN [outcome |-> "raised", error |-> "FileNotFoundError", value |-> NoPath]
    ELSE [outcome |-> "returned", error |-> "",
          value |-> [root |-> "resources",
                     hash |-> Md5OfChunks(fs[file_path].bytes, 1, DigestSeed),
                     name |-> Basename(file_path)]]

\* Resource.__init__ of the r-th Resource, made from the r-th file while the
\* files are as constructed: the attributes the object has, by name.
ResourceObject(r) ==
    LET path == FilePathList[((r - 1) % Len(FilePathList)) + 1]
    IN [id |-> r, _type |-> "mesh_file", name |-> "mesh",
        path |-> GeneratePathResult(ConstructedFiles, path).value,
        unique_attributes |-> <<>>, fetch_from |-> path]

\* Resource.to_dict
ResourceToDict(r) ==
    LET self == ResourceObject(r)
    IN [type |-> self._type, id |-> self.id, name |-> self.name, path |-> self.path]

\* Structure.preset and Structure.mesh of the constructed structures (made
\* without project and auto-load flags): a Preset and a Mesh of their own,
\* which the caller hands to no load call.
StructurePreset == NumPresets + 1

StructureMesh == NumResources + 1

\* The arguments of load_presets / load_resources after lines 146-147 and
\* 160-161 have put a bare object into a list: lists of up to two objects
\* or other values.
ItemLists(items) == UNION {[1..k -> items \cup {NonItem}] : k \in 0..2}

\* Project.load_presets / Project.load_resources: TypeError unless every
\* element is of the class, else the list is extended in place.
LoadResult(h, registry, items, loaded) ==
    IF \E i \in DOMAIN loaded : loaded[i] \notin items
    THEN [heap |-> h, outcome |-> "raised", error |-> "TypeError"]
    ELSE [heap |-> [h EXCEPT !.registries[registry] = @ \o loaded],
          outcome |-> "returned_none", error |-> ""]

LoadPresets(self, loaded) ==
    /\ Running
    /\ node_type[self] = "project"
    /\ LET r == LoadResult(Heap, presets[self], Presets, loaded) IN
       /\ Len(r.heap.registries[presets[self]]) <= MaxRegistered
       /\ SetHeap(r.heap)
       /\ ret' = [op |-> "load_presets", outcome |-> r.outcome, error |-> r.error,
                  warning |-> FALSE]
    /\ UNCHANGED <<handles, copies, files>>

LoadResources(self, loaded) ==
    /\ Running
    /\ node_type[self] = "project"
    /\ LET r == LoadResult(Heap, resources[self], Resources, loaded) IN
       /\ Len(r.heap.registries[resources[self]]) <= MaxRegistered
       /\ SetHeap(r.heap)
       /\ ret' = [op |-> "load_resources", outcome |-> r.outcome,
                  error |-> r.error, warning |-> FALSE]
    /\ UNCHANGED <<handles, copies, files>>

\* [node.to_dict() for node in nodes], one call after the other.
RECURSIVE ToDictEach(_, _, _, _)
ToDictEach(h, nodes, i, dicts) ==
    IF i > Len(nodes) THEN [heap |-> h, value |-> dicts]
    ELSE LET r == ToDictResult(h, nodes[i])
         IN ToDictEach(r.heap, nodes, i + 1, Append(dicts, r.node_dict))

\* Project._create_toml_data: one entry per preset, per resource and per node
\* handed in (a preset is kept as its id, a resource as its to_dict record).
CreateTomlData(h, preset_list, resource_list, nodes) ==
    LET converted == ToDictEach(h, nodes, 1, <<>>)
    IN [heap |-> converted.heap,
        data |-> [presets |-> preset_list,
                  resources |-> [i \in DOMAIN resource_list |->
                                     ResourceToDict(resource_list[i])],
                  nodes |-> converted.value]]

\* The loop of Project.nano over self._resources, from the i-th resource on:
\* resource.file_path and resource.safe_path are attribute reads (an
\* AttributeError where the object has no such attribute); a file that is
\* there is written under arcname, one that is not is reported.
RECURSIVE AddResources(_, _, _, _, _)
AddResources(fs, resource_list, i, payloads, reported) ==
    IF i > Len(resource_list)
    THEN [outcome |-> "returned_none", error |-> "", payloads |-> payloads,
          reported |-> reported]
    ELSE LET resource == ResourceObject(resource_list[i]) IN
         IF "file_path" \notin DOMAIN resource \/ "safe_path" \notin DOMAIN resource
         THEN [outcome |-> "raised", error |-> "AttributeError",
               payloads |-> payloads, reported |-> reported]
         ELSE LET src_path == resource["file_path"]
                  arcname == resource["safe_path"]
              IN IF fs[src_path].exists
                 THEN AddResources(fs, resource_list, i + 1,
                                   Append(payloads, [name |-> arcname,
                                                     bytes |-> fs[src_path].bytes]),
                                   reported)
                 ELSE AddResources(fs, resource_list, i + 1, payloads,
                                   Append(reported, src_path))

\* nano if the metadata were stamped at export: project_info gets the date of
\* the call before it is written.
NanoResultRestamping(h, fs, self) ==
    LET toml_data == CreateTomlData(h, h.registries[h.presets[self]],
                                    h.registries[h.resources[self]],
                                    <<self>> \o h.all_descendants[self])
        stamped == [toml_data.heap EXCEPT
                       !.project_info[self].creation_date = "export"]
        added == AddResources(fs, h.registries[h.resources[self]], 1, <<>>, <<>>)
    IN [heap |-> stamped, data |-> toml_data.data,
        archive |-> [manifest |-> toml_data.data,
                     project_info |-> stamped.project_info[self],
                     payloads |-> added.payloads],
        reported |-> added.reported,
        outcome |-> added.outcome, error |-> added.error]

\* Project.nano: the manifest is made from self._presets, self._resources and
\* [self] + self.all_descendants, the metadata from self.project_info; both
\* are written to the archive, then the resources are added.
NanoResult(h, fs, self) ==
    LET toml_data == CreateTomlData(h, h.registries[h.presets[self]],
                                    h.registries[h.resources[self]],
                                    <<self>> \o h.all_descendants[self])
        project_info_data == h.project_info[self]
        added == AddResources(fs, h.registries[h.resources[self]], 1, <<>>, <<>>)
    IN [heap |-> toml_data.heap, data |-> toml_data.data,
        archive |-> [manifest |-> toml_data.data,
                     project_info |-> project_info_data,
                     payloads |-> added.payloads],
        reported |-> added.reported,
        outcome |-> added.outcome, error |-> added.error]

\* ret keeps the manifest handed to the archive (value), what the archive
\* holds when the call ends and the files reported as not found.
Nano(self) ==
    /\ Running
    /\ node_type[self] = "project"
    /\ LET r == NanoResult(Heap, files, self) IN
       /\ SetHeap(r.heap)
       /\ ret' = [op |-> "nano", outcome |-> r.outcome, error |-> r.error,
                  warning |-> FALSE, self |-> self, value |-> r.data,
                  archive |-> r.archive, reported |-> r.reported]
    /\ UNCHANGED <<handles, copies, files>>

\* A project filled with add_child, load_presets and load_resources and
\* exported with nano.
NextExport ==
    \/ \E self \in handles, child_nodes \in SingleCandidates : AddChild(self, child_nodes)
    \/ \E self \in handles, loaded \in ItemLists(Presets) : LoadPresets(self, loaded)
    \/ \E self \in handles, loaded \in ItemLists(Resources) : LoadResources(self, loaded)
    \/ \E self \in handles : Nano(self)

SpecExport == Init /\ [][NextExport]_vars

\* The file system between the calls: a file is written or removed.
WriteFile(file_path, bytes) ==
    /\ Running
    /\ files[file_path] # File(bytes)
    /\ files' = [files EXCEPT ![file_path] = File(bytes)]
    /\ SetHeap(Heap)
    /\ ret' = [op |-> "write_file", outcome |-> "returned_none", error |-> "",
               warning |-> FALSE]
    /\ UNCHANGED <<handles, copies>>

RemoveFile(file_path) ==
    /\ Running
    /\ files[file_path].exists
    /\ files' = [files EXCEPT ![file_path] = NoFile]
    /\ SetHeap(Heap)
    /\ ret' = [op |-> "remove_file", outcome |-> "returned_none", error |-> "",
               warning |-> FALSE]
    /\ UNCHANGED <<handles, copies>>

\* resource.generate_path(file_path), called on a Resource made before.
GeneratePath(file_path) ==
    /\ Running
    /\ LET r == GeneratePathResult(files, file_path) IN
       ret' = [op |-> "generate_path", outcome |-> r.outcome, error |-> r.error,
               warning |-> FALSE, file_path |-> file_path, value |-> r.value]
    /\ SetHeap(Heap)
    /\ UNCHANGED <<handles, copies, files>>

\* Paths are generated while files are written and removed.
NextResource ==
    \/ \E file_path \in FilePaths, bytes \in FileContents : WriteFile(file_path, bytes)
    \/ \E file_path \in FilePaths : RemoveFile(file_path)
    \/ \E file_path \in FilePaths : GeneratePath(file_path)

SpecResource == Init /\ [][NextResource]_vars

\* A project whose resources are registered with load_resources and which is
\* exported with nano while files come and go.
NextArchive ==
    \/ \E self \in handles, loaded \in ItemLists(Resources) : LoadResources(self, loaded)
    \/ \E file_path \in FilePaths, bytes \in FileContents : WriteFile(file_path, bytes)
    \/ \E file_path \in FilePaths : RemoveFile(file_path)
    \/ \E self \in handles : Nano(self)

SpecArchive == Init /\ [][NextArchive]_vars

\* ------------------------------------------------------------ Node.__init__
\* Values handed in as name: strings, as the sequences of their characters,
\* and None.
NameArguments ==
    {[type |-> "str", chars |-> <<>>], [type |-> "str", chars |-> <<" ">>],
     [type |-> "str", chars |-> <<" ", "\t">>],
     [type |-> "str", chars |-> <<" ", "n", " ">>],
     [type |-> "str", chars |-> <<"n">>], [type |-> "NoneType", chars |-> <<>>]}

\* Values handed in as position or rotation: lists, each element kept as its
\* type.
VectorArguments ==
    {<<"float", "float", "float">>, <<"int", "int">>, <<"int", "float", "str">>,
     <<"int", "int", "int", "int">>}

\* str(value)
Str(value) ==
    IF value.type = "str" THEN value.chars ELSE <<"N", "o", "n", "e">>

Whitespace == {" ", "\t"}

\* str.strip(): leading and trailing whitespace is dropped.
RECURSIVE Strip(_)
Strip(chars) ==
    IF chars = <<>> THEN chars
    ELSE IF Head(chars) \in Whitespace THEN Strip(Tail(chars))
    ELSE IF chars[Len(chars)] \in Whitespace
         THEN Strip(SubSeq(chars, 1, Len(chars) - 1))
    ELSE chars

\* Node.__init__: the id is drawn, then the name setter raises ValueError for
\* a name that str() and strip() leave empty; position and rotation are
\* stored as handed in, the lists start empty.
NewNodeResult(h, new_type, new_name, new_position, new_rotation) ==
    LET node == Cardinality(Objects(h)) + 1
        all == 1..node
        Put(f, v) == [m \in all |-> IF m = node THEN v ELSE f[m]]
        value == Str(new_name)
    IN IF Strip(value) = <<>>
       THEN [heap |-> [h EXCEPT !.uuids = @ + 1], node |-> NonNode,
             outcome |-> "raised", error |-> "ValueError"]
       ELSE [heap |-> [node_type |-> Put(h.node_type, new_type),
                       id |-> Put(h.id, h.uuids + 1),
                       name |-> Put(h.name, value),
                       position |-> Put(h.position, new_position),
                       rotation |-> Put(h.rotation, new_rotation),
                       children |-> Put(h.children, <<>>),
                       children_nodes |-> Put(h.children_nodes, <<>>),
                       parents_nodes |-> Put(h.parents_nodes, Len(h.lists) + 1),
                       lists |-> Append(h.lists, <<>>),
                       all_descendants |-> Put(h.all_descendants, <<>>),
                       all_ancestors |-> Put(h.all_ancestors, <<>>),
                       presets |-> Put(h.presets, 0),
                       resources |-> Put(h.resources, 0),
                       registries |-> h.registries,
                       uuids |-> h.uuids + 1,
                       project_info |-> Put(h.project_info, NoProjectInfo)],
             node |-> node, outcome |-> "returned", error |-> ""]

NewNode(new_type, new_name, new_position, new_rotation) ==
    /\ Running
    /\ uuids < NumNodes + MaxNew
    /\ LET r == NewNodeResult(Heap, new_type, new_name, new_position, new_rotation) IN
       /\ SetHeap(r.heap)
       /\ handles' = IF r.outcome = "returned" THEN handles \cup {r.node}
                     ELSE handles
       /\ ret' = [op |-> "new_node", outcome |-> r.outcome, error |-> r.error,
                  warning |-> FALSE, value |-> r.node,
                  args |-> [name |-> new_name, position |-> new_position,
                            rotation |-> new_rotation]]
    /\ UNCHANGED <<copies, files>>

\* Nodes are constructed one after the other.
NextNew ==
    \E new_type \in GrabTypes, new_name \in NameArguments,
       new_position \in VectorArguments, new_rotation \in VectorArguments :
        NewNode(new_type, new_name, new_position, new_rotation)

SpecNew == Init /\ [][NextNew]_vars

\* ======================================================================
\* Properties
\* ======================================================================
\* Nodes reachable from the members of S by following children_nodes.
RECURSIVE ChildClosure(_)
ChildClosure(S) ==
    LET T == S \cup UNION {Range(children_nodes[n]) : n \in S}
    IN IF T = S THEN S ELSE ChildClosure(T)

\* Nodes reachable from n by following children_nodes one or more times.
ReachableBelow(n) == ChildClosure(Range(children_nodes[n]))

AllObjects == DOMAIN node_type

HasSceneAbove(n) ==
    \/ node_type[n] = "scene"
    \/ \E a \in Range(all_ancestors[n]) : node_type[a] = "scene"

Raised(r) == r.op = "add_child" /\ r.outcome = "raised"

\* C1: whenever the calls made so far have all returned or raised, for every
\* node N the set of nodes listed in N.all_descendants is the set reachable
\* from N through children_nodes, and N is listed in the all_ancestors of each
\* of them.
C1_CacheConsistency ==
    Running =>
        \A N \in AllObjects :
            /\ Range(all_descendants[N]) = ReachableBelow(N)
            /\ \A D \in Range(all_descendants[N]) : N \in Range(all_ancestors[D])

\* A subtree built first and attached afterwards, or a tree grown from the
\* top: a node with a child and a grandchild after a call that returned.
C1_Witness ==
    /\ ret.op = "add_child" /\ ret.outcome = "returned"
    /\ \E N, B, C \in AllObjects :
           /\ B \in Range(children_nodes[N])
           /\ C \in Range(children_nodes[B])
           /\ C \in Range(all_descendants[N])
           /\ N \in Range(all_ancestors[C])

\* C2: self.add_child(candidate) raises a ValueError whenever self is listed in
\* candidate.all_descendants, whatever the candidate's type, and leaves
\* candidate.all_descendants as it was.
C2_CycleRejected ==
    [][\A self \in handles, candidate \in handles :
           (self \in Range(all_descendants[candidate])
               /\ AddChild(self, <<candidate>>))
           => /\ ret'.outcome = "raised"
              /\ all_descendants'[candidate] = all_descendants[candidate]]_vars

\* C3: A.add_child(B) raises and leaves A.children_nodes alone whenever B is
\* already listed in A.all_descendants.
C3_DescendantRejected ==
    [][\A A \in handles, B \in handles :
           (B \in Range(all_descendants[A]) /\ AddChild(A, <<B>>))
           => /\ ret'.outcome = "raised"
              /\ children_nodes'[A] = children_nodes[A]]_vars

\* C4: add_child of a scene that is not yet above the receiving node raises
\* whenever the receiving node is a scene or has a scene among its ancestors.
C4_NoNestedScenes ==
    [][\A self \in handles, candidate \in handles :
           (/\ node_type[candidate] = "scene"
            /\ candidate # self
            /\ candidate \notin Range(all_ancestors[self])
            /\ HasSceneAbove(self)
            /\ AddChild(self, <<candidate>>))
           => ret'.outcome = "raised"]_vars

\* C5: no call of add_child on a node of type structure gets past the checks:
\* in every state such a node has no children, no descendants, and is in no
\* node's parents_nodes.
C5_StructureIsTerminal ==
    \A S \in AllObjects :
        node_type[S] = "structure"
            => /\ children_nodes[S] = <<>>
               /\ all_descendants[S] = <<>>
               /\ \A n \in AllObjects : S \notin Range(lists[parents_nodes[n]])

\* add_child on a structure has raised the terminal-node error.
C5_Witness == Raised(ret) /\ ret.error = "ValueError: terminal node"

\* C6: no call of add_child with a project as candidate gets past the checks:
\* in every state a node of type project has no parents and no ancestors, and
\* is in no node's children_nodes or all_descendants.
C6_ProjectIsNeverAChild ==
    \A p \in AllObjects :
        node_type[p] = "project"
            => /\ lists[parents_nodes[p]] = <<>>
               /\ all_ancestors[p] = <<>>
               /\ \A n \in AllObjects :
                      /\ p \notin Range(children_nodes[n])
                      /\ p \notin Range(all_descendants[n])

\* add_child of a project has raised the project error on a tree that has
\* nodes to attach it to.
C6_Witness ==
    /\ Raised(ret) /\ ret.error = "ValueError: project as child"
    /\ \E n \in AllObjects : children_nodes[n] # <<>>

\* Each candidate of the list passes the checks of add_child on self, and the
\* candidates are different nodes.
Acceptable(self, child_nodes) ==
    /\ \A i \in DOMAIN child_nodes : Rejection(Heap, self, child_nodes[i]) = ""
    /\ \A i, j \in DOMAIN child_nodes : i # j => child_nodes[i] # child_nodes[j]

\* C7: after self.add_child(c1, ..., cn) with n >= 2 acceptable candidates,
\* the candidates are the new tail of self.children_nodes in argument order,
\* self is a parent of each and each is listed in self.all_descendants.
C7_AllCandidatesAttached ==
    [][\A self \in handles, child_nodes \in CandidateLists :
           (Len(child_nodes) >= 2 /\ Acceptable(self, child_nodes)
               /\ AddChild(self, child_nodes) /\ ret'.outcome = "returned")
           => /\ children_nodes'[self] = children_nodes[self] \o child_nodes
              /\ \A i \in DOMAIN child_nodes :
                     /\ self \in Range(lists'[parents_nodes'[child_nodes[i]]])
                     /\ child_nodes[i] \in Range(all_descendants'[self])]_vars

\* C8: add_child(c1, c2) with c1 acceptable and c2 a project or a non-node
\* raises, and c1 is attached to self when it does.
C8_PartialFailure ==
    [][\A self \in handles, c1 \in handles, c2 \in handles \cup {NonNode} :
           (/\ Rejection(Heap, self, c1) = ""
            /\ (c2 = NonNode \/ node_type[c2] = "project")
            /\ AddChild(self, <<c1, c2>>)
            /\ ret'.outcome # "diverged")
           => /\ ret'.outcome = "raised"
              /\ children_nodes'[self] = Append(children_nodes[self], c1)]_vars

\* C9: a call of add_child that raises leaves children_nodes, parents_nodes,
\* all_descendants and all_ancestors of every node as they were.
C9_RejectedChangesNothing ==
    [][Raised(ret') =>
           UNCHANGED <<children_nodes, parents_nodes, lists, all_descendants,
                       all_ancestors>>]_vars

\* The cycle check has rejected a candidate on a chain of three nodes.
C9_Witness ==
    /\ Raised(ret) /\ ret.error = "ValueError: ancestor of the current node"
    /\ \E A, B, C \in AllObjects :
           B \in Range(children_nodes[A]) /\ C \in Range(children_nodes[B])

\* C10: every call has returned or raised; no call is still inside the loop
\* of _generate_all_ancestors.
C10_EveryCallTerminates == ret.outcome \in {"returned", "returned_none", "raised"}

\* ------------------------------------------------------------ deepcopy_node
\* The node a deepcopy_node step hands back to the caller.
CopiedNode == CHOOSE n \in handles' : n \notin handles

\* The fields of every object that existed before the step are as they were.
OriginalsUntouched ==
    \A n \in AllObjects :
        /\ id'[n] = id[n]
        /\ node_type'[n] = node_type[n]
        /\ children_nodes'[n] = children_nodes[n]
        /\ all_descendants'[n] = all_descendants[n]
        /\ all_ancestors'[n] = all_ancestors[n]
        /\ Parents(Heap', n) = Parents(Heap, n)

\* The members of S and the nodes below them in heap h.
RECURSIVE SubtreeIn(_, _)
SubtreeIn(h, S) ==
    LET T == S \cup UNION {Range(h.children_nodes[n]) : n \in S}
    IN IF T = S THEN S ELSE SubtreeIn(h, T)

\* In heap h, a and b head subtrees of the same shape: same type, same number
\* of children, and the children pairwise of the same shape, in order.
RECURSIVE SameShape(_, _, _)
SameShape(h, a, b) ==
    /\ h.node_type[a] = h.node_type[b]
    /\ Len(h.children_nodes[a]) = Len(h.children_nodes[b])
    /\ \A i \in DOMAIN h.children_nodes[a] :
           SameShape(h, h.children_nodes[a][i], h.children_nodes[b][i])

\* C11: deepcopy_node(copy_children=True) on a node with K nodes below it
\* returns the head of a subtree of K+1 nodes of the same shape, whose ids are
\* pairwise distinct and distinct from every id of the original subtree; the
\* ids, children, parents and caches of the nodes that existed before the call
\* are unchanged.
C11_DeepCopyRegeneratesIds ==
    [][\A self \in handles :
           (DeepcopyNode(self, TRUE) /\ ret'.outcome = "returned")
           => LET original == ChildClosure({self})
                  clone == SubtreeIn(Heap', {CopiedNode})
              IN /\ CopiedNode \notin AllObjects
                 /\ Cardinality(clone) = Cardinality(ReachableBelow(self)) + 1
                 /\ clone \cap AllObjects = {}
                 /\ \A m, n \in clone : m # n => id'[m] # id'[n]
                 /\ \A m \in clone, n \in original : id'[m] # id'[n]
                 /\ SameShape(Heap', self, CopiedNode)
                 /\ OriginalsUntouched]_vars

\* A deep copy of a node that has a child and a grandchild has returned.
C11_Witness ==
    /\ ret.op = "deepcopy_node" /\ ret.outcome = "returned"
    /\ \E c \in handles, B, C \in AllObjects :
           /\ c > NumNodes
           /\ B \in Range(children_nodes[c])
           /\ C \in Range(children_nodes[B])
           /\ id[c] > NumNodes /\ id[B] > NumNodes /\ id[C] > NumNodes

\* c came out of deepcopy_node(copy_children=True): a new object whose
\* parents_nodes list is a list object of its own.
IsDeepClone(c) ==
    /\ c \in handles /\ c > NumNodes
    /\ \A n \in AllObjects \ {c} : parents_nodes[n] # parents_nodes[c]

\* C12: for a node N that has a parent, the clone c returned by
\* N.deepcopy_node(copy_children=True) has an empty parents_nodes and an empty
\* all_ancestors, the all_ancestors of every cloned descendant holds only nodes
\* of the clone subtree, and when the clone, attached nowhere yet, is attached
\* by X.add_child(c), the nodes of c.all_ancestors are X and X's ancestors.
C12_DeepCloneHasNoParent ==
    [][/\ \A N \in handles :
              (/\ Parents(Heap, N) # <<>>
               /\ DeepcopyNode(N, TRUE)
               /\ ret'.outcome = "returned")
              => /\ Parents(Heap', CopiedNode) = <<>>
                 /\ all_ancestors'[CopiedNode] = <<>>
                 /\ \A d \in Range(all_descendants'[CopiedNode]) :
                        Range(all_ancestors'[d])
                            \subseteq SubtreeIn(Heap', {CopiedNode})
       /\ \A X \in handles, c \in handles :
              (/\ IsDeepClone(c)
               /\ \A n \in AllObjects : c \notin Range(children_nodes[n])
               /\ AddChild(X, <<c>>)
               /\ ret'.outcome = "returned")
              => Range(all_ancestors'[c]) = {X} \cup Range(all_ancestors'[X])]_vars

\* C13: N.deepcopy_node(copy_children=False) returns a new node of N's type
\* with no children, an empty all_descendants, an empty all_ancestors and an
\* id different from N's and from every other id; no child of N is a child of
\* the copy, and the id, children and caches of N and of every other node that
\* existed before the call are unchanged.
C13_ShallowCopyIsBare ==
    [][\A N \in handles :
           DeepcopyNode(N, FALSE)
           => /\ ret'.outcome = "returned"
              /\ CopiedNode \notin AllObjects
              /\ node_type'[CopiedNode] = node_type[N]
              /\ children_nodes'[CopiedNode] = <<>>
              /\ all_descendants'[CopiedNode] = <<>>
              /\ all_ancestors'[CopiedNode] = <<>>
              /\ \A n \in AllObjects : id'[CopiedNode] # id[n]
              /\ DOMAIN node_type' = AllObjects \cup {CopiedNode}
              /\ OriginalsUntouched]_vars

\* A shallow copy of a node that has a parent, a child and a grandchild has
\* returned: the copy is a new handle using the parents_nodes list of N.
C13_Witness ==
    /\ ret.op = "deepcopy_node" /\ ret.outcome = "returned"
    /\ \E c \in handles, N \in AllObjects :
           /\ c > NumNodes /\ N <= NumNodes
           /\ parents_nodes[c] = parents_nodes[N]
           /\ Len(children_nodes[N]) = 1 /\ Len(all_descendants[N]) = 2
           /\ Len(all_ancestors[N]) = 1
           /\ children_nodes[c] = <<>>

\* s came out of N.deepcopy_node(copy_children=False).
IsShallowCopyOf(s, N) ==
    /\ s \in handles /\ s > NumNodes
    /\ N \in handles /\ N <= NumNodes
    /\ parents_nodes[s] = parents_nodes[N]

\* C14: for s = N.deepcopy_node(copy_children=False) of a node N that has a
\* parent, a later X.add_child(s) or s.add_child(y) that involves neither N
\* nor N's subtree leaves N's parents_nodes, all_ancestors and children_nodes
\* as they were, and X.add_child(s) on the still unattached s makes the nodes
\* of s.all_ancestors exactly X and X's ancestors.
C14_CopiesShareNothing ==
    [][\A s, N, other \in handles :
           (/\ IsShallowCopyOf(s, N)
            /\ Parents(Heap, N) # <<>>
            /\ other \notin {s, N}
            /\ N \notin Range(all_descendants[other])
            /\ N \notin Range(all_ancestors[other])
            /\ ret'.outcome = "returned")
           => /\ (AddChild(other, <<s>>) \/ AddChild(s, <<other>>))
                  => /\ Parents(Heap', N) = Parents(Heap, N)
                     /\ all_ancestors'[N] = all_ancestors[N]
                     /\ children_nodes'[N] = children_nodes[N]
              /\ (AddChild(other, <<s>>)
                     /\ \A n \in AllObjects : s \notin Range(children_nodes[n]))
                  => Range(all_ancestors'[s])
                         = {other} \cup Range(all_ancestors'[other])]_vars

\* -------------------------------------------------------------- append_node
\* The nodes below self form a tree: one link into each of them, none into self.
IsTree(h, self) ==
    LET subtree == SubtreeIn(h, {self})
    IN SumLen(h.children_nodes, subtree) = Cardinality(subtree) - 1

\* self and the nodes below it in depth-first order, each with its distance
\* from self.
RECURSIVE Preorder(_, _, _)
RECURSIVE PreorderOfChildren(_, _, _, _)
Preorder(h, n, distance) ==
    <<[node |-> n, distance |-> distance]>>
        \o PreorderOfChildren(h, h.children_nodes[n], 1, distance + 1)

PreorderOfChildren(h, kids, i, distance) ==
    IF i > Len(kids) THEN <<>>
    ELSE Preorder(h, kids[i], distance)
             \o PreorderOfChildren(h, kids, i + 1, distance)

\* The first node in depth-first order among those farthest below self.
DeepestDescendant(h, self) ==
    LET order == Preorder(h, self, 0)
        first == CHOOSE i \in DOMAIN order :
                     /\ \A j \in DOMAIN order : order[j].distance <= order[i].distance
                     /\ \A j \in 1..(i - 1) : order[j].distance < order[i].distance
    IN order[first].node

\* C15: on every tree, self.append_node(x) with a fresh node x (no parent, no
\* child, not in the tree) that returns has appended x to the
\* children of the deepest descendant of self (the node farthest below self,
\* the first such node in depth-first order), and to no other node's.
C15_AppendsToDeepest ==
    [][\A self \in handles, x \in handles :
           (/\ IsTree(Heap, self)
            /\ x \notin SubtreeIn(Heap, {self})
            /\ Parents(Heap, x) = <<>> /\ children_nodes[x] = <<>>
            /\ AppendNode(self, x)
            /\ ret'.outcome = "returned_none")
           => LET deepest == DeepestDescendant(Heap, self)
              IN /\ children_nodes'[deepest] = Append(children_nodes[deepest], x)
                 /\ \A n \in AllObjects \ {deepest} :
                        children_nodes'[n] = children_nodes[n]]_vars

\* ---------------------------------------------------------------- grab_node
\* The children of n of type t, in insertion order.
ChildrenOfType(n, t) ==
    [i \in 1..Cardinality({j \in DOMAIN children_nodes[n] :
                               node_type[children_nodes[n][j]] = t}) |->
        children_nodes[n][CHOOSE j \in DOMAIN children_nodes[n] :
            /\ node_type[children_nodes[n][j]] = t
            /\ Cardinality({l \in 1..j : node_type[children_nodes[n][l]] = t}) = i]]

\* The node reached from n by taking, for each pair from the k-th on, the
\* child at the pair's index among the children of the pair's type; NonNode
\* when some level has no such child.
RECURSIVE WalkDown(_, _, _)
WalkDown(n, pairs, k) ==
    IF k > Len(pairs) THEN n
    ELSE LET selected == ListItem(ChildrenOfType(n, pairs[k][1]), pairs[k][2])
         IN IF selected = NonNode THEN NonNode
            ELSE WalkDown(selected, pairs, k + 1)

\* C16: grab_node((t1,i1), ..., (tn,in)) returns the node reached from self by
\* taking at each level the child at index ik among the current node's
\* children of type tk in insertion order (self for no pair), and raises,
\* returning no node, when some level has no child at the requested index.
C16_GrabNodeWalksDown ==
    ret.op = "grab_node" =>
        LET target == WalkDown(ret.self, ret.args, 1)
        IN IF target = NonNode
           THEN ret.outcome = "raised" /\ ret.value = NonNode
           ELSE ret.outcome = "returned" /\ ret.value = target

\* A two-level walk that returned, after skipping at the first level a first
\* child of another type.
C16_Witness ==
    /\ ret.op = "grab_node" /\ ret.outcome = "returned"
    /\ Len(ret.args) = 2 /\ ret.args[1][2] = 0
    /\ \E a \in Range(children_nodes[ret.self]) :
           /\ ret.value \in Range(children_nodes[a])
           /\ node_type[a] = ret.args[1][1]
           /\ node_type[children_nodes[ret.self][1]] # ret.args[1][1]

\* ------------------------------------------------------- grab_all_nodes_bfs
\* The number of links from self down to n, in a tree.
DistanceBelow(self, n) ==
    LET order == Preorder(Heap, self, 0)
    IN order[CHOOSE i \in DOMAIN order : order[i].node = n].distance

\* What a grab_all_nodes_bfs call on a tree has to return.
BfsResultIsRight(self, type, result) ==
    /\ Range(result) = {n \in SubtreeIn(Heap, {self}) : node_type[n] = type}
    /\ \A i, j \in DOMAIN result : i # j => result[i] # result[j]
    /\ \A i, j \in DOMAIN result :
           i < j => /\ DistanceBelow(self, result[i]) <= DistanceBelow(self, result[j])
                    /\ \A p \in SubtreeIn(Heap, {self}) :
                           \A k, l \in DOMAIN children_nodes[p] :
                               (children_nodes[p][k] = result[i]
                                   /\ children_nodes[p][l] = result[j]) => k < l

\* C17: on a tree, grab_all_nodes_bfs(t) returns the nodes of type t among
\* self and its descendants, each once, nearer nodes before deeper ones and
\* the children of one parent in insertion order, and changes no node.
C17_BfsEnumeratesTree ==
    [][(ret'.op = "grab_all_nodes_bfs" /\ IsTree(Heap, ret'.self))
           => /\ BfsResultIsRight(ret'.self, ret'.args[1], ret'.value)
              /\ UNCHANGED <<node_type, id, children, children_nodes,
                             parents_nodes, lists, all_descendants,
                             all_ancestors>>]_vars

\* A search that returned a node together with its grandchild, or two
\* siblings together with a child of the first.
C17_Witness ==
    /\ ret.op = "grab_all_nodes_bfs" /\ IsTree(Heap, ret.self)
    /\ Len(ret.value) = 2
    /\ Len(children_nodes[ret.self]) = 2
    /\ ret.value[1] = children_nodes[ret.self][2]
    /\ ret.value[2] \in Range(children_nodes[children_nodes[ret.self][1]])

\* ------------------------------------------------------------------ to_dict
\* C18: the `children` entry of the dict a to_dict call returns is the list of
\* the ids of the node's live children in insertion order, a call that
\* directly follows a call on the same node returns the same `children`, and
\* no call changes the id, children_nodes, parents_nodes, all_descendants or
\* all_ancestors of any node.
C18_ToDictProjectsChildren ==
    [][ret'.op = "to_dict"
           => /\ ret'.value.children
                     = [i \in DOMAIN children_nodes[ret'.self] |->
                           id[children_nodes[ret'.self][i]]]
              /\ (ret.op = "to_dict" /\ ret.self = ret'.self)
                     => ret'.value.children = ret.value.children
              /\ UNCHANGED <<id, children_nodes, parents_nodes, lists,
                             all_descendants, all_ancestors>>]_vars

\* to_dict has returned the ids of two children for a node whose parent holds,
\* from an earlier call, a cached list with this node's id.
C18_Witness ==
    /\ ret.op = "to_dict"
    /\ Len(ret.value.children) = 2
    /\ children[ret.self] = ret.value.children
    /\ \E n \in AllObjects :
           /\ Len(children[n]) = 1
           /\ children[n][1] = id[ret.self]
           /\ Len(children_nodes[n]) = 1

\* The keys every node record has to have.
BaseKeys ==
    {"type", "id", "name", "position", "rotation", "children", "properties",
     "geometry"}

\* C19: the dict to_dict returns for a node of any type has all of the keys
\* type, id, name, position, rotation, children, properties and geometry.
C19_RecordHasBaseKeys ==
    ret.op = "to_dict" => BaseKeys \subseteq ret.value.keys

\* ------------------------------------------------------------------- export
\* C20: the manifest nano writes for a project has one entry under `presets`
\* per registered preset, one under `resources` per registered resource and
\* one under `nodes` per node of the project's tree: the root's record first
\* and exactly one record for each node.
C20_ExportIsComplete ==
    ret.op = "nano" =>
        LET tree == SubtreeIn(Heap, {ret.self})
            manifest == ret.value
        IN /\ Len(manifest.presets) = Len(registries[presets[ret.self]])
           /\ Len(manifest.resources) = Len(registries[resources[ret.self]])
           /\ Len(manifest.nodes) = Cardinality(tree)
           /\ manifest.nodes[1].id = id[ret.self]
           /\ \A n \in tree :
                  Cardinality({i \in DOMAIN manifest.nodes :
                                  manifest.nodes[i].id = id[n]}) = 1

\* The resources registered with the project of the last nano call.
RegisteredResources == Range(registries[resources[ret.self]])

\* C21: after an export, for every registered resource whose source file
\* exists the archive has an entry that is named by the path stored on the
\* resource at construction (the `path` of its manifest record) and holds the
\* bytes of the file at the location recorded at construction.
C21_PayloadUnderStoredPath ==
    ret.op = "nano" =>
        \A r \in RegisteredResources :
            files[ResourceObject(r).fetch_from].exists =>
                \E i \in DOMAIN ret.archive.payloads :
                    /\ ret.archive.payloads[i].name = ResourceToDict(r).path
                    /\ ret.archive.payloads[i].bytes
                           = files[ResourceObject(r).fetch_from].bytes

\* C22: an export made while the source file of a registered resource is
\* missing does not raise: it ends normally, reports the missing file, writes
\* no payload for it and writes the payload of every registered resource
\* whose file is there.
C22_LenientPackaging ==
    (/\ ret.op = "nano"
     /\ \E r \in RegisteredResources : ~files[ResourceObject(r).fetch_from].exists)
        => /\ ret.outcome = "returned_none"
           /\ \A r \in RegisteredResources :
                  IF files[ResourceObject(r).fetch_from].exists
                  THEN \E i \in DOMAIN ret.archive.payloads :
                           ret.archive.payloads[i].name = ResourceObject(r).path
                  ELSE /\ ResourceObject(r).fetch_from \in Range(ret.reported)
                       /\ \A i \in DOMAIN ret.archive.payloads :
                              ret.archive.payloads[i].name # ResourceObject(r).path

\* C23: a nano step draws no identity and leaves every node's id, type, child
\* list and descendant list, the preset and resource collections and the
\* metadata as they were (only the cached list of child ids may be
\* refreshed); an export that follows an export of the same project, with no
\* other call in between, hands the same manifest and the same metadata to
\* the archive.
C23_ExportIsDeterministic ==
    [][ret'.op = "nano" =>
           /\ uuids' = uuids
           /\ id' = id
           /\ node_type' = node_type
           /\ children_nodes' = children_nodes
           /\ all_descendants' = all_descendants
           /\ presets' = presets
           /\ resources' = resources
           /\ registries' = registries
           /\ project_info' = project_info
           /\ ret'.archive.project_info = project_info[ret'.self]
           /\ (ret.op = "nano" /\ ret.self = ret'.self)
                  => /\ ret'.value = ret.value
                     /\ ret'.archive.manifest = ret.archive.manifest
                     /\ ret'.archive.project_info = ret.archive.project_info]_vars

\* An export of a project with a child and a registered preset has ended
\* normally and has refreshed the project's list of child ids.
C23_Witness ==
    /\ ret.op = "nano"
    /\ ret.outcome = "returned_none"
    /\ Len(children_nodes[ret.self]) >= 1
    /\ Len(registries[presets[ret.self]]) >= 1
    /\ children[ret.self] = ChildIds(Heap, ret.self)
    /\ Len(ret.archive.manifest.nodes) >= 2

\* C24: generate_path raises FileNotFoundError and produces no path when the
\* file is not there; otherwise it returns resources/<hash>/<base name of
\* the file>, and of two calls in a row on files of equal content the second
\* returns the hash of the first, and the path of the first exactly when the
\* base names are equal, whatever the directories.
C24_PathIsContentAddressed ==
    [][ret'.op = "generate_path" =>
           IF ~files'[ret'.file_path].exists
           THEN /\ ret'.outcome = "raised"
                /\ ret'.error = "FileNotFoundError"
                /\ ret'.value = NoPath
           ELSE /\ ret'.outcome = "returned"
                /\ ret'.value.root = "resources"
                /\ ret'.value.name = Basename(ret'.file_path)
                /\ (/\ ret.op = "generate_path"
                    /\ ret.outcome = "returned"
                    /\ files[ret.file_path].bytes = files[ret'.file_path].bytes)
                       => /\ ret'.value.hash = ret.value.hash
                          /\ (ret'.value = ret.value)
                                 <=> (Basename(ret'.file_path)
                                         = Basename(ret.file_path))]_vars

\* generate_path has returned a path for the second of two files of equal
\* content and different names.
C24_Witness ==
    /\ ret.op = "generate_path"
    /\ ret.outcome = "returned"
    /\ ret.file_path = <<"a", "copy.stl">>
    /\ files[<<"a", "part.stl">>].exists
    /\ files[<<"a", "part.stl">>].bytes = files[ret.file_path].bytes
    /\ ret.value.name = "copy.stl"
    /\ ret.value.hash = GeneratePathResult(files, <<"a", "part.stl">>).value.hash
    /\ ret.value # GeneratePathResult(files, <<"a", "part.stl">>).value

\* C25: the export of a project whose tree holds a structure with a preset
\* and a mesh that were never registered ends without error, and its
\* manifest lists exactly the registered presets and resources, in order.
C25_UnregisteredStructureExports ==
    (/\ ret.op = "nano"
     /\ \E n \in SubtreeIn(Heap, {ret.self}) : node_type[n] = "structure"
     /\ StructurePreset \notin Range(registries[presets[ret.self]])
     /\ StructureMesh \notin Range(registries[resources[ret.self]]))
        => /\ ret.outcome = "returned_none"
           /\ ret.value.presets = registries[presets[ret.self]]
           /\ Len(ret.value.resources) = Len(registries[resources[ret.self]])
           /\ \A i \in DOMAIN ret.value.resources :
                  ret.value.resources[i].id = registries[resources[ret.self]][i]

\* Exactly three numeric components.
IsVector(v) == Len(v) = 3 /\ \A i \in DOMAIN v : v[i] \in {"int", "float"}

\* C26: a Node constructor call with a name that is empty or only whitespace,
\* or with a position or rotation that is not three numbers, raises
\* ValueError and returns no node; any other call returns a node that has an
\* id no other object has and empty child, descendant and ancestor lists.
C26_ConstructionIsValidated ==
    ret.op = "new_node" =>
        IF \/ (ret.args.name.type = "str" /\ Strip(ret.args.name.chars) = <<>>)
           \/ ~IsVector(ret.args.position)
           \/ ~IsVector(ret.args.rotation)
        THEN /\ ret.outcome = "raised"
             /\ ret.error = "ValueError"
             /\ ret.value = NonNode
        ELSE /\ ret.outcome = "returned"
             /\ \A n \in AllObjects \ {ret.value} : id[n] # id[ret.value]
             /\ children_nodes[ret.value] = <<>>
             /\ all_descendants[ret.value] = <<>>
             /\ all_ancestors[ret.value] = <<>>

\* C27: in every state no node is reachable from itself over children_nodes,
\* and no node is listed in its own all_descendants or all_ancestors.
C27_Acyclic ==
    \A n \in AllObjects :
        /\ n \notin ReachableBelow(n)
        /\ n \notin Range(all_descendants[n])
        /\ n \notin Range(all_ancestors[n])

\* C28: in every state in which the last call has ended, no scene is
\* reachable over children_nodes from another scene and no scene lists
\* another scene in its all_ancestors.
C28_AtMostOneSceneAbove ==
    Running =>
        \A s \in AllObjects :
            node_type[s] = "scene" =>
                /\ \A a \in Range(all_ancestors[s]) \ {s} : node_type[a] # "scene"
                /\ \A d \in ReachableBelow(s) \ {s} : node_type[d] # "scene"

\* C29: in every state in which the last call has ended, each node has at
\* most one parent, is listed at most once in a node's children_nodes and at
\* most once in a node's all_descendants.
C29_NoDuplicates ==
    Running =>
        \A n \in AllObjects :
            /\ Len(Parents(Heap, n)) <= 1
            /\ \A p \in AllObjects :
                   /\ Cardinality({i \in DOMAIN children_nodes[p] :
                                      children_nodes[p][i] = n}) <= 1
                   /\ Cardinality({i \in DOMAIN all_descendants[p] :
                                      all_descendants[p][i] = n}) <= 1

\* Every node has at most one parent: the links form trees.
IsForest(h) == \A n \in Objects(h) : Len(Parents(h, n)) <= 1

\* In every all_descendants list a node stands after its parent, if the
\* parent is listed, and children of one parent stand in the order of the
\* parent's children_nodes, the order in which they were added.
DescendantsInOrder(h) ==
    \A n \in Objects(h) :
        \A i, j \in DOMAIN h.all_descendants[n] :
            LET a == h.all_descendants[n][i]
                b == h.all_descendants[n][j]
            IN /\ a \in Range(Parents(h, b)) => i < j
               /\ \A p \in Objects(h) :
                      \A k, l \in DOMAIN h.children_nodes[p] :
                          (/\ h.children_nodes[p][k] = a
                           /\ h.children_nodes[p][l] = b
                           /\ k < l) => i < j

\* C30: after an add_child call that returned and left only trees, every
\* all_descendants list has parents before their children and siblings in
\* insertion order; an add_child call only appends to the lists, so entries
\* already listed keep their places; and the manifest of an export lists the
\* project and then its all_descendants in that order.
C30_DescendantsKeepOrder ==
    [][/\ (ret'.op = "add_child" /\ ret'.outcome = "returned" /\ IsForest(Heap'))
              => DescendantsInOrder(Heap')
       /\ ret'.op = "add_child"
              => \A n \in AllObjects :
                     /\ Len(all_descendants[n]) <= Len(all_descendants'[n])
                     /\ SubSeq(all_descendants'[n], 1, Len(all_descendants[n]))
                            = all_descendants[n]
       /\ (ret'.op = "nano" /\ IsForest(Heap'))
              => LET listed == <<ret'.self>> \o all_descendants'[ret'.self]
                 IN /\ Len(ret'.value.nodes) = Len(listed)
                    /\ \A i \in DOMAIN listed :
                           ret'.value.nodes[i].id = id'[listed[i]]]_vars

\* A project with two children, the first of which got its own child after
\* both were attached, has been exported.
C30_Witness ==
    /\ ret.op = "nano"
    /\ IsForest(Heap)
    /\ Len(children_nodes[ret.self]) = 2
    /\ Len(children_nodes[children_nodes[ret.self][1]]) = 1
    /\ all_descendants[ret.self]
           = <<children_nodes[ret.self][1], children_nodes[ret.self][2],
               children_nodes[children_nodes[ret.self][1]][1]>>
    /\ Len(ret.value.nodes) = 4

====
